---- MODULE Spec2Model ----
\* Model of the DatePickerDialog component (src/src/DatePickerDialog.tsx):
\* a React function component with three scroll columns (year, month, day),
\* its state hooks, its effects, its timers and its event handlers.
EXTENDS Integers, Sequences, FiniteSets, TLC

\* ---------------------------------------------------------------------------
\* Program constants
\* ---------------------------------------------------------------------------
ITEM_HEIGHT == 46
VISIBLE_ITEM_COUNT == 5
PADDING == ITEM_HEIGHT * 2

InitAlignDelayMs == 100
InitDoneDelayMs == 200
UnanimatedDelayMs == 50
AnimatedDelayMs == 400
SettleDelayMs == 150
SyncClampDelayMs == 150
SyncKeepDelayMs == 50
MomentumDelayMs == 50

\* One tick of model time is 50 ms, the greatest common divisor of the delays.
Ticks(ms) == ms \div 50

\* ---------------------------------------------------------------------------
\* Bounds of the model
\* ---------------------------------------------------------------------------
\* steps of the environment over a whole behaviour: the host showing or hiding
\* the dialog, and the user's scrolls, momentum ends, taps and button presses
MaxSteps == 4
\* the user's scrolls, momentum ends and taps on a column while the dialog is
\* open once
MaxEvents == 1
\* scroll and tap inputs address the item indices 0..MaxScrollIndex and the last
MaxScrollIndex == 0
\* the onScroll events of one drag after its first
MaxDragEvents == 1
\* the largest item index the offset formula is applied to
MaxIndex == 30
\* direct alignment calls address the item indices 0..MaxAlignIndex and the last
MaxAlignIndex == 1

\* ---------------------------------------------------------------------------
\* Values
\* ---------------------------------------------------------------------------
Cols == {"year", "month", "day"}

\* JavaScript's undefined, as read from an empty array
Undef == 0

Date(y, m, d) == [y |-> y, m |-> m, d |-> d]

\* an omitted optional Date prop
NoDate == Date(0, 0, 0)

DateLe(a, b) ==
  \/ a.y < b.y
  \/ a.y = b.y /\ a.m < b.m
  \/ a.y = b.y /\ a.m = b.m /\ a.d <= b.d

DateLt(a, b) == DateLe(a, b) /\ a # b

IsLeap(y) == (y % 4 = 0 /\ y % 100 # 0) \/ y % 400 = 0

\* new Date(year, month, 0).getDate()
DaysInMonth(y, m) ==
  IF m = 2 THEN (IF IsLeap(y) THEN 29 ELSE 28)
  ELSE IF m \in {4, 6, 9, 11} THEN 30 ELSE 31

\* ---------------------------------------------------------------------------
\* Props of one mounted component: fixed over a behaviour, except visible and
\* initialDate, which the host sets when it opens the dialog.
\* ---------------------------------------------------------------------------
DefaultMinDate == Date(1945, 1, 1)

\* One host: the clock's today, the minDate and maxDate props it passes (NoDate
\* is an omitted prop) and the initialDate values it opens the dialog with.
Host(t, lo, hi, dates) == [today |-> t, minDate |-> lo, maxDate |-> hi, dates |-> dates]

\* a host that passes both bounds, the maximum in the future
HostBounded(dates) == Host(Date(2024, 3, 10), Date(2023, 2, 15), Date(2025, 12, 31), dates)

\* a host that omits minDate and maxDate, as the README's usage example does
HostDefault(dates) == Host(Date(2024, 3, 10), NoDate, NoDate, dates)

\* the hosts of the specifications with column events
Configs ==
  { HostBounded({ Date(2023, 12, 25), Date(2024, 2, 29), Date(2024, 3, 5) }),
    HostDefault({ NoDate }) }

\* initial dates: omitted, in range, after today, before minDate
InitialDates ==
  { NoDate, Date(2023, 12, 25), Date(2024, 2, 29), Date(2024, 6, 20), Date(1944, 5, 1) }

\* the hosts of the specification without column events
HostConfigs == { HostBounded(InitialDates), HostDefault(InitialDates) }

\* hosts whose bounds meet in one year, one month, one day, or end before today
HostSameYear(dates) == Host(Date(2024, 3, 10), Date(2024, 2, 10), NoDate, dates)
HostSameMonth(dates) == Host(Date(2024, 3, 10), Date(2024, 3, 5), NoDate, dates)
HostSingleDay(dates) == Host(Date(2024, 3, 10), Date(2024, 3, 10), Date(2024, 3, 10), dates)
HostPastMax(dates) == Host(Date(2024, 3, 10), Date(2023, 11, 20), Date(2024, 2, 29), dates)

\* hosts whose minDate is later than the effective maximum: in a later year, in
\* a later month of its year, in its month
HostMinLaterYear(dates) == Host(Date(2024, 3, 10), Date(2025, 1, 15), NoDate, dates)
HostMinLaterMonth(dates) == Host(Date(2024, 3, 10), Date(2024, 5, 1), NoDate, dates)
HostMinLaterDay(dates) == Host(Date(2024, 3, 10), Date(2024, 3, 20), NoDate, dates)

\* the hosts of the specification of the bounds
BoundsDates == { NoDate, Date(2024, 2, 29) }

BoundsConfigs ==
  { HostBounded(BoundsDates), HostSameYear(BoundsDates),
    HostSameMonth(BoundsDates), HostSingleDay(BoundsDates), HostPastMax(BoundsDates),
    HostMinLaterYear(BoundsDates), HostMinLaterMonth(BoundsDates),
    HostMinLaterDay(BoundsDates) }

VARIABLES
  cfg,            \* the host: today, the props minDate / maxDate, its initial dates
  visible,        \* prop visible
  initialDate,    \* prop initialDate (NoDate when omitted)
  sel,            \* selectedYear / selectedMonth / selectedDay (useState)
  rendered,       \* the values the last committed render and its effects saw
  renderPending,  \* a state or prop change awaits its render
  centerIndex,    \* per column: state.centerIndex (and its useState mirror)
  isAutoScrolling,\* per column: state.isAutoScrolling
  offset,         \* per column: the scroll view's content offset
  isInitializing, \* isInitializing.current
  pressDay,       \* selectedDay as captured by the memoized handleItemPress
  timers,         \* pending setTimeout / requestAnimationFrame callbacks
  mountId,        \* which mount of the scroll views is current
  log,            \* callbacks emitted in the current open cycle
  nSteps,         \* steps of the environment so far
  nEvents,        \* column events of the user since the dialog was opened
  seeds,          \* runs of the seeding effect in the current open cycle
  cascade,        \* the day selected before the running year/month cascade
  last            \* the step taken last

vars == << cfg, visible, initialDate, sel, rendered, renderPending, centerIndex,
           isAutoScrolling, offset, isInitializing, pressDay, timers, mountId,
           log, nSteps, nEvents, seeds, cascade, last >>

\* ---------------------------------------------------------------------------
\* Derived props
\* ---------------------------------------------------------------------------
today == cfg.today

\* minDate = new Date(1945, 0, 1) as the destructuring default
minDate == IF cfg.minDate = NoDate THEN DefaultMinDate ELSE cfg.minDate

\* The default is evaluated on every render, so an omitted minDate is a new
\* object each time and every hook that depends on it sees a changed dependency.
MinDateFresh == cfg.minDate = NoDate

effectiveMaxDate ==
  IF cfg.maxDate # NoDate
  THEN (IF DateLt(today, cfg.maxDate) THEN today ELSE cfg.maxDate)
  ELSE today

ValidBounds == DateLe(minDate, effectiveMaxDate)

\* ---------------------------------------------------------------------------
\* Range lists
\* ---------------------------------------------------------------------------
\* Array.from({ length: hi - lo + 1 }, (_, i) => lo + i)
Range(lo, hi) == [i \in 1..(hi - lo + 1) |-> lo + i - 1]

BuildYearList == Range(minDate.y, effectiveMaxDate.y)

\* a month list that is not narrowed at minDate's year
BuildMonthListNoMin(year) ==
  IF year = effectiveMaxDate.y THEN Range(1, effectiveMaxDate.m)
  ELSE IF year > effectiveMaxDate.y THEN << >>
  ELSE Range(1, 12)

BuildMonthList(year) ==
  LET minMonth == IF year = minDate.y THEN minDate.m ELSE 1
  IN IF year = effectiveMaxDate.y THEN Range(minMonth, effectiveMaxDate.m)
     ELSE IF year > effectiveMaxDate.y THEN << >>
     ELSE Range(minMonth, 12)

\* a day list that takes February for 28 days in every year
BuildDayListNoLeap(year, month) ==
  LET totalDays == IF month = 2 THEN 28 ELSE DaysInMonth(year, month)
      minDay == IF year = minDate.y /\ month = minDate.m THEN minDate.d ELSE 1
  IN IF year = effectiveMaxDate.y /\ month = effectiveMaxDate.m
     THEN Range(minDay, effectiveMaxDate.d)
     ELSE IF year > effectiveMaxDate.y
             \/ (year = effectiveMaxDate.y /\ month > effectiveMaxDate.m)
     THEN << >>
     ELSE Range(minDay, totalDays)

BuildDayList(year, month) ==
  LET totalDays == DaysInMonth(year, month)
      minDay == IF year = minDate.y /\ month = minDate.m THEN minDate.d ELSE 1
  IN IF year = effectiveMaxDate.y /\ month = effectiveMaxDate.m
     THEN Range(minDay, effectiveMaxDate.d)
     ELSE IF year > effectiveMaxDate.y
             \/ (year = effectiveMaxDate.y /\ month > effectiveMaxDate.m)
     THEN << >>
     ELSE Range(minDay, totalDays)

\* the list a column shows for the selection (year, month)
ValuesOf(col, year, month) ==
  IF col = "year" THEN BuildYearList
  ELSE IF col = "month" THEN BuildMonthList(year)
  ELSE BuildDayList(year, month)

Includes(list, v) == \E i \in 1..Len(list) : list[i] = v

\* Array.prototype.indexOf, 0-based, -1 when absent
IndexOf(list, v) ==
  IF Includes(list, v) THEN (CHOOSE i \in 1..Len(list) : list[i] = v) - 1 ELSE -1

\* list[i] for a 0-based i; undefined outside the array
At(list, i) == IF i >= 0 /\ i < Len(list) THEN list[i + 1] ELSE Undef

Max(a, b) == IF a > b THEN a ELSE b
Min(a, b) == IF a < b THEN a ELSE b

\* Math.max(0, Math.min(index, values.length - 1))
ClampIndex(index, len) == Max(0, Min(index, len - 1))

\* JavaScript's > on numbers: false when either side is undefined
JsGt(a, b) == a # Undef /\ b # Undef /\ a > b

\* Math.round(n / d) for n >= 0, d > 0 (halves round up)
RoundDiv(n, d) == (2 * n + d) \div (2 * d)

\* ---------------------------------------------------------------------------
\* Seeding (the initialization effect's computation of the selection)
\* ---------------------------------------------------------------------------
\* day clamp of the initialization effect: the day itself when legal, else the
\* nearest end of the list, 1 for an empty list
SeedDay(availableDays, day) ==
  IF Len(availableDays) > 0 /\ Includes(availableDays, day) THEN day
  ELSE IF Len(availableDays) > 0
  THEN (IF day > availableDays[Len(availableDays)] THEN availableDays[Len(availableDays)]
        ELSE availableDays[1])
  ELSE 1

\* a seeding that forgets the clamp to effectiveMaxDate
SeedDateNoMaxClamp(init) ==
  LET dateToUse == IF init # NoDate THEN init ELSE today
      finalDate == IF DateLt(dateToUse, minDate) THEN minDate ELSE dateToUse
  IN finalDate

SeedDate(init) ==
  LET dateToUse == IF init # NoDate THEN init ELSE today
      clampedDate == IF DateLt(effectiveMaxDate, dateToUse) THEN effectiveMaxDate ELSE dateToUse
      finalDate == IF DateLt(clampedDate, minDate) THEN minDate ELSE clampedDate
      clampedYear == Max(minDate.y, Min(finalDate.y, effectiveMaxDate.y))
      \* the one element of the set { seed : list \in { ... } }: each list is built once
      seedOf(built) == CHOOSE seed \in built : TRUE
  IN seedOf({ LET clampedMonth ==
                    IF Len(availableMonths) > 0 /\ Includes(availableMonths, finalDate.m)
                    THEN finalDate.m
                    ELSE (IF Len(availableMonths) > 0 THEN availableMonths[1] ELSE 1)
              IN seedOf({ Date(clampedYear, clampedMonth, SeedDay(availableDays, finalDate.d))
                          : availableDays \in { BuildDayList(clampedYear, clampedMonth) } })
              : availableMonths \in { BuildMonthList(clampedYear) } })

\* ---------------------------------------------------------------------------
\* Column sync (the month and day effects' computation)
\* ---------------------------------------------------------------------------
\* a month effect that picks the last legal month
SyncMonthLast(year, month) ==
  LET availableMonths == BuildMonthList(year)
  IN IF ~Includes(availableMonths, month)
     THEN At(availableMonths, Len(availableMonths) - 1) ELSE month

\* month effect: the month kept when legal for the year, else availableMonths[0]
SyncMonth(year, month) ==
  LET availableMonths == BuildMonthList(year)
  IN IF ~Includes(availableMonths, month) THEN At(availableMonths, 0) ELSE month

\* day effect: the day kept when legal, else the last value when the day is
\* above it, else availableDays[0]
SyncDay(year, month, day) ==
  LET availableDays == BuildDayList(year, month)
  IN IF ~Includes(availableDays, day)
     THEN (IF JsGt(day, At(availableDays, Len(availableDays) - 1))
           THEN At(availableDays, Len(availableDays) - 1)
           ELSE At(availableDays, 0))
     ELSE day

\* ---------------------------------------------------------------------------
\* Selection from an index
\* ---------------------------------------------------------------------------
\* an applySelectionFromIndex that leaves the selection as it is
ApplySelectionKept(col, index, s, closureDay) == s

\* an applySelectionFromIndex that takes every column for the year column
ApplySelectionAsYear(col, index, s, closureDay) ==
  [s EXCEPT !.y = At(BuildYearList, ClampIndex(index, Len(BuildYearList)))]

\* applySelectionFromIndex, run in a closure whose selectedDay is closureDay:
\* the selection s with the column's component set to values[clampedIndex]
\* when that differs from the closure's value
ApplySelectionFromIndex(col, index, s, closureDay) ==
  LET values == ValuesOf(col, s.y, s.m)
      v == At(values, ClampIndex(index, Len(values)))
  IN IF col = "year" THEN [s EXCEPT !.y = v]
     ELSE IF col = "month" THEN [s EXCEPT !.m = v]
     ELSE IF v # closureDay THEN [s EXCEPT !.d = v] ELSE s

\* ---------------------------------------------------------------------------
\* The emitted date
\* ---------------------------------------------------------------------------
InvalidDate == Date(-1, -1, -1)

\* new Date(year, month - 1, day): a day past the month's end rolls over into
\* the next month; an undefined component gives an invalid date
MakeDate(y, m, d) ==
  IF y = Undef \/ m = Undef \/ d = Undef THEN InvalidDate
  ELSE IF d <= DaysInMonth(y, m) THEN Date(y, m, d)
  ELSE IF m = 12 THEN Date(y + 1, 1, d - DaysInMonth(y, m))
  ELSE Date(y, m + 1, d - DaysInMonth(y, m))

\* ---------------------------------------------------------------------------
\* Timers: the pending setTimeout and requestAnimationFrame callbacks, in the
\* order of their creation. A callback keeps the values of the render that
\* created it: idx and len are the index and the list length its closure
\* computes, y the offset it scrolls to, mount the scroll view it holds. rem is
\* the time left, in ticks; callbacks that are due run in creation order.
\* ---------------------------------------------------------------------------
Timer(kind, col, idx, len, anim, y, rem, mount) ==
  [kind |-> kind, col |-> col, idx |-> idx, len |-> len, anim |-> anim,
   y |-> y, rem |-> rem, mount |-> mount]

\* setTimeout(..., 100) of the initialization effect
InitTimer == Timer("init", "year", 0, 0, FALSE, 0, Ticks(InitAlignDelayMs), 0)

\* setTimeout(() => { isInitializing.current = false }, 200)
InitDoneTimer == Timer("initDone", "year", 0, 0, FALSE, 0, Ticks(InitDoneDelayMs), 0)

\* setTimeout(() => { state.isAutoScrolling = false }, animate ? 400 : 50)
ClearAutoTimer(col, animate) ==
  Timer("clearAuto", col, 0, 0, animate, 0,
        IF animate THEN Ticks(AnimatedDelayMs) ELSE Ticks(UnanimatedDelayMs), 0)

\* a target offset that leaves out the top padding
OffsetForIndexNoPadding(clampedIndex) ==
  Max(0, (clampedIndex - (VISIBLE_ITEM_COUNT - 1) \div 2) * ITEM_HEIGHT)

\* Math.max(0, targetOffset), targetOffset = (clampedIndex - centerIndex) *
\* ITEM_HEIGHT + PADDING with centerIndex = (VISIBLE_ITEM_COUNT - 1) / 2
OffsetForIndex(clampedIndex) ==
  Max(0, (clampedIndex - (VISIBLE_ITEM_COUNT - 1) \div 2) * ITEM_HEIGHT + PADDING)

\* requestAnimationFrame(() => ref.scrollTo({ y: Math.max(0, targetOffset) }))
RafTimer(col, clampedIndex, animate) ==
  Timer("raf", col, 0, 0, animate, OffsetForIndex(clampedIndex), 0, mountId)

\* state.scrollStopTimer = setTimeout(..., 150) in handleScroll
SettleTimer(col, len) == Timer("settle", col, 0, len, TRUE, 0, Ticks(SettleDelayMs), 0)

\* setTimeout(() => alignColumnToSelection(col, animate), animate ? 150 : 50)
SyncTimer(col, idx, len, animate) ==
  Timer("sync", col, idx, len, animate, 0,
        IF animate THEN Ticks(SyncClampDelayMs) ELSE Ticks(SyncKeepDelayMs), 0)

\* setTimeout(..., 50) of onMomentumScrollEnd
MomentumTimer(col, idx, len) ==
  Timer("momentum", col, idx, len, TRUE, 0, Ticks(MomentumDelayMs), 0)

\* requestAnimationFrame(() => scrollToIndex(column, clampedIndex, true))
PressTimer(col, idx, len) == Timer("press", col, idx, len, TRUE, 0, 0, 0)

\* a clearTimeout that cancels nothing
WithoutNone(ts, kind, col) == ts

\* clearTimeout: the callbacks ts without those of the given kind and column
Without(ts, kind, col) ==
  LET Keep(t) == ~(t.kind = kind /\ t.col = col) IN SelectSeq(ts, Keep)

\* the scroll views exist while the Modal renders its children
Mounted == rendered.visible

\* the lists of the committed render: years, months, days
RenderedValues(col) == ValuesOf(col, rendered.y, rendered.m)

\* the step taken last
Step(op, col) == [op |-> op, col |-> col, init |-> FALSE, msync |-> "none", dsync |-> "none"]

NoCascade == [active |-> FALSE, d0 |-> 0]

\* ---------------------------------------------------------------------------
\* Initial state: the component is mounted hidden; useState starts at today
\* ---------------------------------------------------------------------------
Start(hosts) ==
  /\ cfg \in hosts
  /\ visible = FALSE
  /\ initialDate = NoDate
  /\ sel = cfg.today
  /\ rendered = [y |-> cfg.today.y, m |-> cfg.today.m, visible |-> FALSE]
  /\ renderPending = FALSE
  /\ centerIndex = [c \in Cols |-> 0]
  /\ isAutoScrolling = [c \in Cols |-> FALSE]
  /\ offset = [c \in Cols |-> 0]
  /\ isInitializing = FALSE
  /\ pressDay = cfg.today.d
  /\ timers = << >>
  /\ mountId = 0
  /\ log = << >>
  /\ nSteps = 0
  /\ nEvents = 0
  /\ seeds = 0
  /\ cascade = NoCascade
  /\ last = Step("Init", "none")

Init == Start(Configs)

InitHost == Start(HostConfigs)

InitBounds == Start(BoundsConfigs)

\* ---------------------------------------------------------------------------
\* Host: shows and hides the dialog
\* ---------------------------------------------------------------------------
Open(init) ==
  /\ ~visible /\ ~renderPending /\ nSteps < MaxSteps
  /\ nSteps' = nSteps + 1
  /\ visible' = TRUE
  /\ initialDate' = init
  /\ renderPending' = TRUE
  /\ log' = << >>
  /\ seeds' = 0
  /\ cascade' = NoCascade
  /\ nEvents' = 0
  /\ last' = Step("Open", "none")
  /\ UNCHANGED << cfg, sel, rendered, centerIndex, isAutoScrolling, offset,
                  isInitializing, pressDay, timers, mountId >>

Close ==
  /\ visible /\ ~renderPending /\ nSteps < MaxSteps
  /\ nSteps' = nSteps + 1
  /\ visible' = FALSE
  /\ renderPending' = TRUE
  /\ cascade' = NoCascade
  /\ last' = Step("Close", "none")
  /\ UNCHANGED << nEvents, cfg, initialDate, sel, rendered, centerIndex, isAutoScrolling,
                  offset, isInitializing, pressDay, timers, mountId, log, seeds >>

\* ---------------------------------------------------------------------------
\* Render and effects. One commit: the component renders with the current
\* state, then the effects whose dependencies changed run in declaration
\* order (seeding, month sync, day sync), all against the values of this
\* render; the state they set is rendered by the next commit.
\* ---------------------------------------------------------------------------
\* a seeding effect that runs on the first opening only
InitEffectRunsFirstOpen ==
  (visible # rendered.visible /\ (mountId = 0 \/ ~visible)) \/ MinDateFresh

\* deps [visible, initialDate, minDate, effectiveMaxDate, build*, today]
InitEffectRuns == visible # rendered.visible \/ MinDateFresh

\* deps [selectedYear, visible, buildMonthList]
MonthEffectRuns == sel.y # rendered.y \/ visible # rendered.visible \/ MinDateFresh

\* deps [selectedYear, selectedMonth, visible, buildDayList]
DayEffectRuns ==
  sel.y # rendered.y \/ sel.m # rendered.m \/ visible # rendered.visible \/ MinDateFresh

Commit ==
  /\ renderPending
  /\ LET cleanup == InitEffectRuns /\ rendered.visible
         seeding == InitEffectRuns /\ visible
         timersA == IF cleanup THEN Without(timers, "init", "year") ELSE timers
         initB == IF seeding THEN TRUE ELSE IF cleanup THEN FALSE ELSE isInitializing
         monthSync == visible /\ ~initB /\ MonthEffectRuns
         daySync == visible /\ ~initB /\ DayEffectRuns
         months == BuildMonthList(sel.y)
         days == BuildDayList(sel.y, sel.m)
         monthClamp == ~Includes(months, sel.m)
         dayClamp == ~Includes(days, sel.d)
         opening == visible /\ ~rendered.visible
     IN /\ sel' = IF seeding THEN SeedDate(initialDate)
                  ELSE [y |-> sel.y,
                        m |-> IF monthSync THEN SyncMonth(sel.y, sel.m) ELSE sel.m,
                        d |-> IF daySync THEN SyncDay(sel.y, sel.m, sel.d) ELSE sel.d]
        /\ timers' = timersA
             \o (IF seeding THEN << InitTimer >> ELSE << >>)
             \o (IF monthSync
                 THEN << SyncTimer("month", IndexOf(months, sel.m), Len(months), monthClamp) >>
                 ELSE << >>)
             \o (IF daySync
                 THEN << SyncTimer("day", IndexOf(days, sel.d), Len(days), dayClamp) >>
                 ELSE << >>)
        /\ isInitializing' = initB
        /\ rendered' = [y |-> sel.y, m |-> sel.m, visible |-> visible]
        /\ renderPending' = (sel' # sel)
        /\ mountId' = IF opening THEN mountId + 1 ELSE mountId
        /\ offset' = IF opening THEN [c \in Cols |-> 0] ELSE offset
        /\ pressDay' = IF sel.y # rendered.y \/ sel.m # rendered.m THEN sel.d ELSE pressDay
        /\ seeds' = IF seeding THEN Min(seeds + 1, 2) ELSE seeds
        /\ cascade' = IF seeding \/ ~visible THEN NoCascade
                      ELSE IF (monthSync \/ daySync) /\ ~cascade.active
                      THEN [active |-> TRUE, d0 |-> sel.d]
                      ELSE cascade
        /\ last' = [op |-> "Commit", col |-> "none", init |-> seeding,
                    msync |-> IF ~monthSync THEN "none"
                              ELSE IF monthClamp THEN "clamp" ELSE "keep",
                    dsync |-> IF ~daySync THEN "none"
                              ELSE IF dayClamp THEN "clamp" ELSE "keep"]
  /\ UNCHANGED << nEvents, cfg, visible, initialDate, centerIndex, isAutoScrolling, log, nSteps >>

\* ---------------------------------------------------------------------------
\* scrollToIndex, run in a closure whose column list has length len, with the
\* other pending callbacks rest
\* ---------------------------------------------------------------------------
\* a scrollToIndex that moves on by index items from the centred one
ScrollToIndexRelative(rest, col, index, len, animate) ==
  IF ~Mounted
  THEN /\ timers' = rest
       /\ UNCHANGED << centerIndex, isAutoScrolling, renderPending >>
  ELSE LET clampedIndex == ClampIndex(centerIndex[col] + index, len)
       IN /\ isAutoScrolling' = [isAutoScrolling EXCEPT ![col] = TRUE]
          /\ centerIndex' = [centerIndex EXCEPT ![col] = clampedIndex]
          /\ renderPending' = (clampedIndex # centerIndex[col])
          /\ timers' = rest \o << RafTimer(col, clampedIndex, animate),
                                  ClearAutoTimer(col, animate) >>

ScrollToIndex(rest, col, index, len, animate) ==
  IF ~Mounted
  THEN /\ timers' = rest
       /\ UNCHANGED << centerIndex, isAutoScrolling, renderPending >>
  ELSE LET clampedIndex == ClampIndex(index, len)
       IN /\ isAutoScrolling' = [isAutoScrolling EXCEPT ![col] = TRUE]
          /\ centerIndex' = [centerIndex EXCEPT ![col] = clampedIndex]
          /\ renderPending' = (clampedIndex # centerIndex[col])
          /\ timers' = rest \o << RafTimer(col, clampedIndex, animate),
                                  ClearAutoTimer(col, animate) >>

\* the callback to run next: the oldest one whose time has come
HasDue == \E i \in 1..Len(timers) : timers[i].rem = 0

FirstDue ==
  CHOOSE i \in 1..Len(timers) :
    timers[i].rem = 0 /\ \A j \in 1..(i - 1) : timers[j].rem # 0

\* a callback runs when its time has come and no render is pending
Due(kind) == ~renderPending /\ HasDue /\ timers[FirstDue].kind = kind

DueTimer == timers[FirstDue]

\* the pending callbacks without the one that runs
Rest == [i \in 1..(Len(timers) - 1) |-> IF i < FirstDue THEN timers[i] ELSE timers[i + 1]]

\* ---------------------------------------------------------------------------
\* Timer callbacks
\* ---------------------------------------------------------------------------
\* the 100 ms callback of the seeding effect: alignToValue for the three columns
FireInit ==
  LET t == DueTimer IN
    /\ Due("init")
    /\ \E s \in {SeedDate(initialDate)} :
         LET value(c) == IF c = "year" THEN s.y ELSE IF c = "month" THEN s.m ELSE s.d
             values(c) == ValuesOf(c, s.y, s.m)
             index(c) == IndexOf(values(c), value(c))
             ok(c) == Mounted /\ index(c) # -1
             target(c) == ClampIndex(index(c), Len(values(c)))
             aligned(c) == IF ok(c)
                           THEN << RafTimer(c, target(c), FALSE), ClearAutoTimer(c, FALSE) >>
                           ELSE << >>
             centered == [c \in Cols |-> IF ok(c) THEN target(c) ELSE centerIndex[c]]
         IN /\ centerIndex' = centered
            /\ isAutoScrolling' = [c \in Cols |-> ok(c) \/ isAutoScrolling[c]]
            /\ timers' = Rest \o aligned("year") \o aligned("month") \o aligned("day")
                              \o << InitDoneTimer >>
            /\ renderPending' = (centered # centerIndex)
    /\ last' = Step("FireInit", "none")
    /\ UNCHANGED << nEvents, cfg, visible, initialDate, sel, rendered, offset, isInitializing,
                    pressDay, mountId, log, nSteps, seeds, cascade >>

FireInitDone ==
  LET t == DueTimer IN
    /\ Due("initDone")
    /\ isInitializing' = FALSE
    /\ timers' = Rest
    /\ last' = Step("FireInitDone", "none")
    /\ UNCHANGED << nEvents, cfg, visible, initialDate, sel, rendered, renderPending, centerIndex,
                    isAutoScrolling, offset, pressDay, mountId, log, nSteps, seeds,
                    cascade >>

\* a completion callback that leaves the flag set
FireClearAutoKeeps ==
  LET t == DueTimer IN
    /\ Due("clearAuto")
    /\ timers' = Rest
    /\ last' = Step("FireClearAuto", t.col)
    /\ UNCHANGED << nEvents, cfg, visible, initialDate, sel, rendered, renderPending, centerIndex,
                    isAutoScrolling, offset, isInitializing, pressDay, mountId, log, nSteps,
                    seeds, cascade >>

\* setTimeout(() => { state.isAutoScrolling = false }, animate ? 400 : 50)
FireClearAuto ==
  LET t == DueTimer IN
    /\ Due("clearAuto")
    /\ isAutoScrolling' = [isAutoScrolling EXCEPT ![t.col] = FALSE]
    /\ timers' = Rest
    /\ last' = Step("FireClearAuto", t.col)
    /\ UNCHANGED << nEvents, cfg, visible, initialDate, sel, rendered, renderPending, centerIndex,
                    offset, isInitializing, pressDay, mountId, log, nSteps, seeds,
                    cascade >>

\* the frame callback scrolls the view it captured, if that view is still mounted
FireRaf ==
  LET t == DueTimer IN
    /\ Due("raf")
    /\ offset' = IF Mounted /\ t.mount = mountId
                 THEN [offset EXCEPT ![t.col] = t.y] ELSE offset
    /\ timers' = Rest
    /\ last' = Step("FireRaf", t.col)
    /\ UNCHANGED << nEvents, cfg, visible, initialDate, sel, rendered, renderPending, centerIndex,
                    isAutoScrolling, isInitializing, pressDay, mountId, log, nSteps,
                    seeds, cascade >>

\* the settle timer of handleScroll: autoCenter unless the column auto-scrolls
FireSettle ==
  LET t == DueTimer IN
    /\ Due("settle")
    /\ IF ~isAutoScrolling[t.col]
       THEN ScrollToIndex(Rest, t.col, centerIndex[t.col], t.len, TRUE)
       ELSE /\ timers' = Rest
            /\ UNCHANGED << centerIndex, isAutoScrolling, renderPending >>
    /\ last' = Step("FireSettle", t.col)
    /\ UNCHANGED << nEvents, cfg, visible, initialDate, sel, rendered, offset, isInitializing,
                    pressDay, mountId, log, nSteps, seeds, cascade >>

\* alignColumnToSelection as scheduled by the month and day effects
FireSync ==
  LET t == DueTimer IN
    /\ Due("sync")
    /\ IF t.idx # -1
       THEN ScrollToIndex(Rest, t.col, t.idx, t.len, t.anim)
       ELSE /\ timers' = Rest
            /\ UNCHANGED << centerIndex, isAutoScrolling, renderPending >>
    /\ last' = Step("FireSync", t.col)
    /\ UNCHANGED << nEvents, cfg, visible, initialDate, sel, rendered, offset, isInitializing,
                    pressDay, mountId, log, nSteps, seeds, cascade >>

\* the 50 ms callback of onMomentumScrollEnd
FireMomentum ==
  LET t == DueTimer IN
    /\ Due("momentum")
    /\ IF ~isAutoScrolling[t.col]
       THEN ScrollToIndex(Rest, t.col, t.idx, t.len, TRUE)
       ELSE /\ timers' = Rest
            /\ UNCHANGED << centerIndex, isAutoScrolling, renderPending >>
    /\ last' = Step("FireMomentum", t.col)
    /\ UNCHANGED << nEvents, cfg, visible, initialDate, sel, rendered, offset, isInitializing,
                    pressDay, mountId, log, nSteps, seeds, cascade >>

\* the frame callback of handleItemPress
FirePress ==
  LET t == DueTimer IN
    /\ Due("press")
    /\ ScrollToIndex(Rest, t.col, t.idx, t.len, TRUE)
    /\ last' = Step("FirePress", t.col)
    /\ UNCHANGED << nEvents, cfg, visible, initialDate, sel, rendered, offset, isInitializing,
                    pressDay, mountId, log, nSteps, seeds, cascade >>

\* time passes when no callback is due
Tick ==
  /\ ~renderPending
  /\ timers # << >>
  /\ ~HasDue
  /\ timers' = [i \in 1..Len(timers) |-> [timers[i] EXCEPT !.rem = @ - 1]]
  /\ last' = Step("Tick", "none")
  /\ UNCHANGED << nEvents, cfg, visible, initialDate, sel, rendered, renderPending, centerIndex,
                  isAutoScrolling, offset, isInitializing, pressDay, mountId, log,
                  nSteps, seeds, cascade >>

\* ---------------------------------------------------------------------------
\* User events on a column
\* ---------------------------------------------------------------------------
\* the item indices the inputs address in a list of length len
InputIndices(len) == {i \in 0..MaxScrollIndex : i < len} \cup {Max(0, len - 1)}

\* the resting offsets of those items
InputOffsets(col) == {i * ITEM_HEIGHT : i \in InputIndices(Len(RenderedValues(col)))}

\* Math.round(centerOffset / ITEM_HEIGHT) clamped into the list
IndexFromOffset(offsetY, len) ==
  LET centerOffset == offsetY + (ITEM_HEIGHT * (VISIBLE_ITEM_COUNT - 1)) \div 2 - PADDING
  IN ClampIndex(RoundDiv(centerOffset, ITEM_HEIGHT), len)

UserReady == Mounted /\ ~renderPending /\ nSteps < MaxSteps /\ nEvents < MaxEvents

\* an onScroll handler without the isAutoScrolling guard
HandleScrollUnguarded(col, offsetY) ==
  /\ UserReady
  /\ nSteps' = nSteps + 1
  /\ nEvents' = nEvents + 1
  /\ offset' = [offset EXCEPT ![col] = offsetY]
  /\ LET values == RenderedValues(col)
         clampedIndex == IndexFromOffset(offsetY, Len(values))
         moved == centerIndex[col] # clampedIndex
     IN /\ centerIndex' = [centerIndex EXCEPT ![col] = clampedIndex]
        /\ sel' = IF moved THEN ApplySelectionFromIndex(col, clampedIndex, sel, sel.d)
                  ELSE sel
        /\ timers' = Append(Without(timers, "settle", col), SettleTimer(col, Len(values)))
        /\ renderPending' = moved
        /\ cascade' = NoCascade
        /\ last' = Step("HandleScroll", col)
  /\ UNCHANGED << cfg, visible, initialDate, rendered, isAutoScrolling, isInitializing,
                  pressDay, mountId, log, seeds >>

\* handleScroll: the body of the onScroll handler
OnScroll(col, offsetY) ==
  /\ offset' = [offset EXCEPT ![col] = offsetY]
  /\ IF isAutoScrolling[col]
     THEN /\ last' = Step("ScrollIgnored", col)
          /\ UNCHANGED << sel, centerIndex, timers, renderPending, cascade >>
     ELSE LET values == RenderedValues(col)
              clampedIndex == IndexFromOffset(offsetY, Len(values))
              moved == centerIndex[col] # clampedIndex
          IN /\ centerIndex' = [centerIndex EXCEPT ![col] = clampedIndex]
             /\ sel' = IF moved THEN ApplySelectionFromIndex(col, clampedIndex, sel, sel.d)
                       ELSE sel
             /\ timers' = Append(Without(timers, "settle", col), SettleTimer(col, Len(values)))
             /\ renderPending' = moved
             /\ cascade' = NoCascade
             /\ last' = Step("HandleScroll", col)
  /\ UNCHANGED << cfg, visible, initialDate, rendered, isAutoScrolling, isInitializing,
                  pressDay, mountId, log, seeds >>

\* onScroll
HandleScroll(col, offsetY) ==
  /\ UserReady
  /\ nSteps' = nSteps + 1
  /\ nEvents' = nEvents + 1
  /\ OnScroll(col, offsetY)

\* the drag goes on: a later onScroll of the gesture whose settle timer is
\* still pending on the column (scrollEventThrottle = 16)
DragReady(col) ==
  /\ Mounted /\ ~renderPending /\ nSteps < MaxSteps
  /\ nEvents >= 1 /\ nEvents < MaxEvents + MaxDragEvents
  /\ \E i \in 1..Len(timers) : timers[i].kind = "settle" /\ timers[i].col = col

DragScroll(col, offsetY) ==
  /\ DragReady(col)
  /\ nSteps' = nSteps + 1
  /\ nEvents' = nEvents + 1
  /\ OnScroll(col, offsetY)

\* onMomentumScrollEnd
MomentumEnd(col, offsetY) ==
  /\ UserReady
  /\ nSteps' = nSteps + 1
  /\ nEvents' = nEvents + 1
  /\ offset' = [offset EXCEPT ![col] = offsetY]
  /\ LET values == RenderedValues(col)
         clampedIndex == IndexFromOffset(offsetY, Len(values))
     IN IF ~isAutoScrolling[col] /\ centerIndex[col] # clampedIndex
        THEN /\ centerIndex' = [centerIndex EXCEPT ![col] = clampedIndex]
             /\ sel' = ApplySelectionFromIndex(col, clampedIndex, sel, sel.d)
             /\ timers' = Append(timers, MomentumTimer(col, clampedIndex, Len(values)))
             /\ renderPending' = TRUE
             /\ cascade' = NoCascade
             /\ last' = Step("MomentumEnd", col)
        ELSE /\ last' = Step("MomentumIgnored", col)
             /\ UNCHANGED << sel, centerIndex, timers, renderPending, cascade >>
  /\ UNCHANGED << cfg, visible, initialDate, rendered, isAutoScrolling, isInitializing,
                  pressDay, mountId, log, seeds >>

\* onPress of the item at index; handleItemPress is memoized on
\* [selectedYear, selectedMonth], so its selectedDay is pressDay
HandleItemPress(col, index) ==
  /\ UserReady
  /\ nSteps' = nSteps + 1
  /\ nEvents' = nEvents + 1
  /\ LET values == ValuesOf(col, sel.y, sel.m)
         clampedIndex == ClampIndex(index, Len(values))
     IN /\ isAutoScrolling' = [isAutoScrolling EXCEPT ![col] = FALSE]
        /\ sel' = ApplySelectionFromIndex(col, clampedIndex, sel, pressDay)
        /\ timers' = Append(Without(timers, "settle", col),
                           PressTimer(col, clampedIndex, Len(values)))
        /\ renderPending' = (sel' # sel)
  /\ cascade' = NoCascade
  /\ last' = Step("HandleItemPress", col)
  /\ UNCHANGED << cfg, visible, initialDate, rendered, centerIndex, offset,
                  isInitializing, pressDay, mountId, log, seeds >>

\* ---------------------------------------------------------------------------
\* Confirm and cancel
\* ---------------------------------------------------------------------------
Emit(type, date) == [type |-> type, date |-> date]

PressReady == Mounted /\ ~renderPending /\ nSteps < MaxSteps

\* handleConfirm: onConfirm(new Date(...)), then handleDismiss
ConfirmEmits(s) ==
  << Emit("onConfirm", MakeDate(s.y, s.m, s.d)), Emit("onDismiss", NoDate) >>

HandleConfirm ==
  /\ PressReady
  /\ log' = log \o ConfirmEmits(sel)
  /\ nSteps' = nSteps + 1
  /\ last' = Step("HandleConfirm", "none")
  /\ UNCHANGED << nEvents, cfg, visible, initialDate, sel, rendered, renderPending, centerIndex,
                  isAutoScrolling, offset, isInitializing, pressDay, timers, mountId,
                  seeds, cascade >>

CancelSources == {"button", "overlay", "back"}

\* a cancel that also reports the selection
CancelEmitsDate(s) ==
  << Emit("onCancel", MakeDate(s.y, s.m, s.d)), Emit("onDismiss", NoDate) >>

\* handleCancel: onCancel(), then handleDismiss
CancelEmits(s) == << Emit("onCancel", NoDate), Emit("onDismiss", NoDate) >>

\* handleCancel, wired to the cancel button, the overlay and onRequestClose
HandleCancel(source) ==
  /\ PressReady
  /\ log' = log \o CancelEmits(sel)
  /\ nSteps' = nSteps + 1
  /\ last' = Step("HandleCancel", source)
  /\ UNCHANGED << nEvents, cfg, visible, initialDate, sel, rendered, renderPending, centerIndex,
                  isAutoScrolling, offset, isInitializing, pressDay, timers, mountId,
                  seeds, cascade >>

\* ---------------------------------------------------------------------------
\* Specification
\* ---------------------------------------------------------------------------
Next ==
  \/ \E init \in cfg.dates : Open(init)
  \/ Close
  \/ Commit
  \/ FireInit
  \/ FireInitDone
  \/ FireClearAuto
  \/ FireRaf
  \/ FireSettle
  \/ FireSync
  \/ FireMomentum
  \/ FirePress
  \/ Tick
  \/ \E col \in Cols : \E offsetY \in InputOffsets(col) : HandleScroll(col, offsetY)
  \/ \E col \in Cols : \E offsetY \in InputOffsets(col) : MomentumEnd(col, offsetY)
  \/ \E col \in Cols : \E index \in InputIndices(Len(RenderedValues(col))) :
       HandleItemPress(col, index)
  \/ HandleConfirm
  \/ \E source \in CancelSources : HandleCancel(source)

Spec == Init /\ [][Next]_vars

\* One open cycle: the host opens the dialog and leaves it open, the user
\* works the columns.
NextCycle ==
  \/ \E init \in cfg.dates : Open(init)
  \/ Commit
  \/ FireInit
  \/ FireInitDone
  \/ FireClearAuto
  \/ FireRaf
  \/ FireSettle
  \/ FireSync
  \/ FireMomentum
  \/ FirePress
  \/ Tick
  \/ \E col \in Cols : \E offsetY \in InputOffsets(col) : HandleScroll(col, offsetY)
  \/ \E col \in Cols : \E offsetY \in InputOffsets(col) : MomentumEnd(col, offsetY)
  \/ \E col \in Cols : \E index \in InputIndices(Len(RenderedValues(col))) :
       HandleItemPress(col, index)

SpecCycle == Init /\ [][NextCycle]_vars

\* The host's side: showing and hiding the dialog and the two buttons, the
\* columns left alone.
NextHost ==
  \/ \E init \in cfg.dates : Open(init)
  \/ Close
  \/ Commit
  \/ FireInit
  \/ FireInitDone
  \/ FireClearAuto
  \/ FireRaf
  \/ Tick
  \/ HandleConfirm
  \/ \E source \in CancelSources : HandleCancel(source)

SpecHost == InitHost /\ [][NextHost]_vars

\* The host's side again, over hosts whose bounds meet or cross.
SpecBounds == InitBounds /\ [][NextHost]_vars

\* Reopening: the host shows and hides the dialog, the user scrolls the year
\* column in between.
NextReopen ==
  \/ \E init \in cfg.dates : Open(init)
  \/ Close
  \/ Commit
  \/ FireInit
  \/ FireInitDone
  \/ FireClearAuto
  \/ FireRaf
  \/ FireSettle
  \/ FireSync
  \/ Tick
  \/ \E offsetY \in InputOffsets("year") : HandleScroll("year", offsetY)

SpecReopen == Init /\ [][NextReopen]_vars

\* One drag: the user drags the month column, onScroll firing again while the
\* finger moves; the dialog stays open.
NextDrag ==
  \/ \E init \in cfg.dates : Open(init)
  \/ Commit
  \/ FireInit
  \/ FireInitDone
  \/ FireClearAuto
  \/ FireRaf
  \/ FireSettle
  \/ FireSync
  \/ Tick
  \/ \E offsetY \in InputOffsets("month") : HandleScroll("month", offsetY)
  \/ \E offsetY \in InputOffsets("month") : DragScroll("month", offsetY)

SpecDrag == Init /\ [][NextDrag]_vars

\* The offset formula alone, in its two directions: a column is scrolled to
\* the target offset of an item of its list, and the index is read back from
\* the offset the column rests at.
ScrollTo(col, index) ==
  /\ index \in 0..(Len(RenderedValues(col)) - 1)
  /\ centerIndex' = [centerIndex EXCEPT ![col] = ClampIndex(index, Len(RenderedValues(col)))]
  /\ offset' = [offset EXCEPT ![col] = OffsetForIndex(centerIndex'[col])]
  /\ last' = Step("ScrollTo", col)
  /\ UNCHANGED << nEvents, cfg, visible, initialDate, sel, rendered, renderPending,
                  isAutoScrolling, isInitializing, pressDay, timers, mountId, log,
                  nSteps, seeds, cascade >>

ReadIndex(col) ==
  /\ centerIndex' = [centerIndex EXCEPT
                       ![col] = IndexFromOffset(offset[col], Len(RenderedValues(col)))]
  /\ last' = Step("ReadIndex", col)
  /\ UNCHANGED << nEvents, cfg, visible, initialDate, sel, rendered, renderPending,
                  isAutoScrolling, offset, isInitializing, pressDay, timers, mountId,
                  log, nSteps, seeds, cascade >>

NextOffset ==
  \/ \E col \in Cols : \E index \in 0..MaxIndex : ScrollTo(col, index)
  \/ \E col \in Cols : ReadIndex(col)

SpecOffset == InitHost /\ [][NextOffset]_vars

\* Alignment alone: the dialog is opened and left open, and scrollToIndex is
\* called without animation, as alignColumnToSelection(column, false) calls
\* it, for an item of the day column's list; the user leaves the columns alone.
AlignIndices(len) == {i \in 0..MaxAlignIndex : i < len} \cup {Max(0, len - 1)}

AlignTo(col, index) ==
  /\ Mounted /\ ~renderPending /\ nSteps < MaxSteps
  /\ nSteps' = nSteps + 1
  /\ ScrollToIndex(timers, col, index, Len(RenderedValues(col)), FALSE)
  /\ last' = Step("AlignTo", col)
  /\ UNCHANGED << nEvents, cfg, visible, initialDate, sel, rendered, offset, isInitializing,
                  pressDay, mountId, log, seeds, cascade >>

NextAlign ==
  \/ \E init \in cfg.dates : Open(init)
  \/ Commit
  \/ FireInit
  \/ FireInitDone
  \/ FireClearAuto
  \/ FireRaf
  \/ Tick
  \/ \E index \in AlignIndices(Len(RenderedValues("day"))) : AlignTo("day", index)

SpecAlign == Init /\ [][NextAlign]_vars

\* The month column worked in every way: the host shows the dialog, the user
\* scrolls, flings and taps the month column.
NextMonth ==
  \/ \E init \in cfg.dates : Open(init)
  \/ Commit
  \/ FireInit
  \/ FireInitDone
  \/ FireClearAuto
  \/ FireRaf
  \/ FireSettle
  \/ FireSync
  \/ FireMomentum
  \/ FirePress
  \/ Tick
  \/ \E offsetY \in InputOffsets("month") : HandleScroll("month", offsetY)
  \/ \E offsetY \in InputOffsets("month") : MomentumEnd("month", offsetY)
  \/ \E index \in InputIndices(Len(RenderedValues("month"))) : HandleItemPress("month", index)

\* The event loop: a pending render is committed, time passes, and a callback
\* whose time has come runs.
Fairness ==
  /\ WF_vars(Commit)
  /\ WF_vars(Tick)
  /\ WF_vars(FireInit)
  /\ WF_vars(FireInitDone)
  /\ WF_vars(FireClearAuto)
  /\ WF_vars(FireRaf)
  /\ WF_vars(FireSettle)
  /\ WF_vars(FireSync)
  /\ WF_vars(FireMomentum)
  /\ WF_vars(FirePress)

SpecMonth == Init /\ [][NextMonth]_vars /\ Fairness

\* ---------------------------------------------------------------------------
\* Properties
\* ---------------------------------------------------------------------------
\* the date the dialog is asked to start from
RequestedDate == IF initialDate # NoDate THEN initialDate ELSE today

\* a date clamped into [minDate, effectiveMaxDate]
ClampDate(d) ==
  IF DateLt(effectiveMaxDate, d) THEN effectiveMaxDate
  ELSE IF DateLt(d, minDate) THEN minDate
  ELSE d

InBounds(d) == DateLe(minDate, d) /\ DateLe(d, effectiveMaxDate)

RealDay(d) == d.m \in 1..12 /\ d.d >= 1 /\ d.d <= DaysInMonth(d.y, d.m)

\* the dialog is shown, seeded, and no render is pending
Settled == Mounted /\ visible /\ seeds >= 1 /\ ~renderPending

\* the day d moved to the nearest end of the non-empty list L when not in it
NearestIn(d, L) ==
  IF Includes(L, d) THEN d
  ELSE IF d > L[Len(L)] THEN L[Len(L)]
  ELSE L[1]

CountOf(type) == Cardinality({i \in 1..Len(log) : log[i].type = type})

\* C1: while the dialog is visible and seeded, the selection lies within
\* [minDate, effectiveMaxDate] and its day is a real day of its month.
C1_SelectionInRange ==
  (ValidBounds /\ Settled) => (InBounds(sel) /\ RealDay(sel))

\* C2: for valid bounds every date passed to onConfirm lies within
\* [minDate, effectiveMaxDate], so it is never later than today.
C2_ConfirmedDateInRange ==
  ValidBounds =>
    \A i \in 1..Len(log) :
      log[i].type = "onConfirm" => (InBounds(log[i].date) /\ DateLe(log[i].date, today))

\* C3: a confirm emits onConfirm with the selected year, month and day, then
\* onDismiss, and no onCancel.
C3_ConfirmEmitsSelection ==
  last.op = "HandleConfirm" =>
    /\ Len(log) >= 2
    /\ log[Len(log) - 1] = Emit("onConfirm", Date(sel.y, sel.m, sel.d))
    /\ log[Len(log)] = Emit("onDismiss", NoDate)

\* C4: every press emits exactly one of onConfirm / onCancel followed by
\* onDismiss; the cancel button, the overlay and the back request emit onCancel
\* then onDismiss and no date.
C4_CancelEmitsNoDate ==
  /\ Len(log) % 2 = 0
  /\ \A i \in 1..Len(log) :
       IF i % 2 = 1
       THEN /\ log[i].type \in {"onConfirm", "onCancel"}
            /\ log[i].type = "onCancel" => log[i].date = NoDate
       ELSE log[i] = Emit("onDismiss", NoDate)
  /\ last.op = "HandleCancel" =>
       /\ Len(log) >= 2
       /\ log[Len(log) - 1] = Emit("onCancel", NoDate)

C4_Witness ==
  /\ last.op = "HandleCancel" /\ last.col = "back"
  /\ log = << Emit("onCancel", NoDate), Emit("onDismiss", NoDate) >>

\* C5: onDismiss fires exactly once per open/close cycle: never twice, and once
\* by the time the dialog has been hidden, whatever closed it.
C5_DismissOncePerCycle ==
  /\ CountOf("onDismiss") <= 1
  /\ (mountId >= 1 /\ ~visible /\ ~Mounted) => CountOf("onDismiss") = 1

\* C6: with valid bounds, the selection seeded when the dialog becomes visible
\* is initialDate (default today) clamped into [minDate, effectiveMaxDate].
C6_SeedIsClampedInitialDate ==
  ValidBounds =>
    /\ Mounted => seeds >= 1
    /\ (last.op = "Commit" /\ last.init) => sel = ClampDate(RequestedDate)

C6_Witness ==
  /\ last.op = "Commit" /\ last.init
  /\ initialDate = Date(2024, 6, 20) /\ cfg.maxDate = Date(2025, 12, 31)
  /\ sel = Date(2024, 3, 10)

\* the user's events on a column
ColumnOps == {"HandleScroll", "MomentumEnd", "HandleItemPress"}

\* C7: while the dialog stays visible with unchanged props, the selection is
\* not seeded again: the year the user selects in the year column is still the
\* selected year after the render that follows the event, the default minDate
\* included.
C7_UserSelectionKept ==
  [][ (last.op \in ColumnOps /\ last.col = "year" /\ last'.op = "Commit")
        => sel'.y = sel.y ]_vars

\* C8: each time the dialog is visible again, and until the user touches a
\* column, the selection is the clamped initialDate of that opening, whatever
\* was selected and whatever timers or column flags were pending in the cycle
\* before.
C8_ReopenReseeds ==
  (ValidBounds /\ Mounted /\ visible /\ nEvents = 0) => sel = ClampDate(RequestedDate)

C8_Witness ==
  /\ Mounted /\ visible /\ ~renderPending /\ mountId = 2 /\ nEvents = 0
  /\ initialDate = Date(2024, 2, 29) /\ sel = Date(2024, 2, 29)
  /\ \E i \in 1..Len(timers) : timers[i].kind = "sync"

\* C9: in Idle, the render that follows a change of the selected year keeps the
\* month when it is legal for the new year and otherwise moves it to the first
\* legal month; no render of the open dialog chooses any other month.
C9_MonthCascadeFirstLegal ==
  [][ (last'.op = "Commit" /\ ~last'.init /\ visible)
        => LET availableMonths == BuildMonthList(sel.y)
           IN /\ sel'.y = sel.y
              /\ sel'.m \in {sel.m, availableMonths[1]}
              /\ (~isInitializing /\ sel.y # rendered.y)
                   => sel'.m = IF Includes(availableMonths, sel.m)
                               THEN sel.m ELSE availableMonths[1] ]_vars

C9_Witness ==
  /\ last.op = "Commit" /\ last.msync = "clamp"
  /\ rendered.y = 2024 /\ rendered.m = 12 /\ sel.m = 1

\* C10: in Idle, once the cascade of a year or month change has completed, the
\* day is the day selected before the change when that is legal for the final
\* year and month, and otherwise the nearest end of their day list.
C10_DayCascadeNearest ==
  (ValidBounds /\ Settled /\ cascade.active /\ Len(BuildDayList(sel.y, sel.m)) > 0)
    => sel.d = NearestIn(cascade.d0, BuildDayList(sel.y, sel.m))

\* L is the ascending list of the integers lo..hi, and is not empty
IsAscendingFromTo(L, lo, hi) ==
  /\ Len(L) >= 1
  /\ L[1] = lo /\ L[Len(L)] = hi
  /\ \A i \in 1..(Len(L) - 1) : L[i + 1] = L[i] + 1

\* the calendar's length of a month
MonthLengths == << 31, 28, 31, 30, 31, 30, 31, 31, 30, 31, 30, 31 >>

CalendarDays(y, m) ==
  IF m = 2 /\ y % 4 = 0 /\ (y % 100 # 0 \/ y % 400 = 0) THEN 29 ELSE MonthLengths[m]

\* C11: for valid bounds and every year from minDate's to effectiveMaxDate's,
\* months(year) is the non-empty ascending list from minDate's month (1 in
\* other years) to effectiveMaxDate's month (12 in other years).
C11_MonthListNarrowed ==
  ValidBounds =>
    \A y \in minDate.y..effectiveMaxDate.y :
      IsAscendingFromTo(BuildMonthList(y),
                        IF y = minDate.y THEN minDate.m ELSE 1,
                        IF y = effectiveMaxDate.y THEN effectiveMaxDate.m ELSE 12)

C11_Witness ==
  /\ Mounted /\ cfg.minDate = Date(2024, 2, 10) /\ rendered.y = 2024
  /\ RenderedValues("month") = << 2, 3 >>

\* C12: for valid bounds, every year of years() and month of months(year),
\* days(year, month) is the non-empty ascending list from minDate's day (1 in
\* other months) to effectiveMaxDate's day (the calendar length of the month in
\* other months), and every date it yields lies within [minDate, effectiveMaxDate].
C12_DayListNarrowed ==
  ValidBounds =>
    \A i \in 1..Len(BuildYearList) :
      LET y == BuildYearList[i] IN
        \A j \in 1..Len(BuildMonthList(y)) :
          LET m == BuildMonthList(y)[j]
              L == BuildDayList(y, m)
          IN /\ IsAscendingFromTo(L,
                  IF y = minDate.y /\ m = minDate.m THEN minDate.d ELSE 1,
                  IF y = effectiveMaxDate.y /\ m = effectiveMaxDate.m
                  THEN effectiveMaxDate.d ELSE CalendarDays(y, m))
             /\ \A k \in 1..Len(L) : InBounds(Date(y, m, L[k]))

C12_Witness ==
  /\ Mounted /\ cfg.minDate = Date(2023, 2, 15) /\ rendered.y = 2024 /\ rendered.m = 2
  /\ Len(RenderedValues("day")) = 29

\* C13: when minDate is later than effectiveMaxDate, the selection seeded at
\* opening is one of the two bounds, and each of its components is a number of
\* its domain.
C13_CrossedBoundsSeedABound ==
  (~ValidBounds /\ last.op = "Commit" /\ last.init)
    => /\ sel \in {minDate, effectiveMaxDate}
       /\ sel.y # Undef /\ sel.m \in 1..12 /\ sel.d \in 1..31

\* the column's component of a selection
Component(s, col) == IF col = "year" THEN s.y ELSE IF col = "month" THEN s.m ELSE s.d

\* the column's callbacks of a kind among the pending ones
Pending(ts, kind, col) == SelectSeq(ts, LAMBDA t : t.kind = kind /\ t.col = col)

\* a step is a scroll-position or momentum-end event of the user on column col
ScrollEventOn(col) ==
  /\ nEvents' = nEvents + 1
  /\ last'.col = col
  /\ last'.op # "HandleItemPress"

\* C14: a scroll-position or momentum-end event on a column whose
\* isAutoScrolling flag is set changes neither the column's centerIndex, nor
\* the selection, nor the pending timers.
C14_EventsIgnoredWhileAutoScrolling ==
  [][ \A col \in Cols :
        (ScrollEventOn(col) /\ isAutoScrolling[col])
          => /\ centerIndex' = centerIndex
             /\ sel' = sel
             /\ timers' = timers
             /\ isAutoScrolling' = isAutoScrolling ]_vars

C14_Witness ==
  /\ last.op = "ScrollIgnored" /\ isAutoScrolling[last.col]
  /\ offset[last.col] # centerIndex[last.col] * ITEM_HEIGHT
  /\ Len(RenderedValues(last.col)) > 1

\* C15: a scroll-position event on a column that is not auto-scrolling, whose
\* offset is the resting offset of item c of the column's list: when c differs
\* from centerIndex, centerIndex becomes c and the column's selected component
\* becomes list[c] in that step; when c equals centerIndex neither changes.
C15_ScrollSelectsCandidate ==
  [][ \A col \in Cols :
        (ScrollEventOn(col) /\ last'.op = "HandleScroll" /\ ~isAutoScrolling[col])
          => LET list == ValuesOf(col, sel.y, sel.m)
                 c == Max(0, Min(offset'[col] \div ITEM_HEIGHT, Len(list) - 1))
             IN IF c # centerIndex[col]
                THEN /\ centerIndex' = [centerIndex EXCEPT ![col] = c]
                     /\ Component(sel', col) = At(list, c)
                     /\ \A other \in Cols \ {col} : Component(sel', other) = Component(sel, other)
                ELSE centerIndex' = centerIndex /\ sel' = sel ]_vars

C15_Witness ==
  /\ last.op = "HandleScroll" /\ last.col = "year" /\ renderPending
  /\ cfg.minDate = Date(2023, 2, 15) /\ centerIndex["year"] = 1
  /\ sel.y = 2024 /\ rendered.y = 2023

\* C16: a tap on item i of a column sets the column's selected component to
\* list[i] for the column's current list, whatever was selected before, clears
\* the column's isAutoScrolling flag and its settle timer, and schedules the
\* alignment to i.
C16_TapSelectsItem ==
  [][ (last'.op = "HandleItemPress")
        => LET col == last'.col
               list == ValuesOf(col, sel.y, sel.m)
               press == timers'[Len(timers')]
           IN /\ press.kind = "press" /\ press.col = col
              /\ ~isAutoScrolling'[col]
              /\ Len(Pending(timers', "settle", col)) = 0
              /\ Component(sel', col) = At(list, press.idx) ]_vars

\* C17: a flag-clearing callback of a column runs only when it belongs to the
\* column's most recent alignment: when it clears isAutoScrolling, no later
\* alignment of the column is still waiting for its own completion delay.
C17_LatestAlignmentClearsFlag ==
  [][ (last'.op = "FireClearAuto")
        => \A i \in 1..Len(timers') :
             ~(timers'[i].kind = "clearAuto" /\ timers'[i].col = last'.col
               /\ timers'[i].rem > 0) ]_vars

\* C18: a settle callback that runs while no user event has happened since the
\* dialog was opened was scheduled in an earlier open cycle; it changes no
\* column's centerIndex or isAutoScrolling flag.
C18_StaleSettleChangesNothing ==
  [][ (last'.op = "FireSettle" /\ nEvents = 0)
        => (centerIndex' = centerIndex /\ isAutoScrolling' = isAutoScrolling) ]_vars

\* the dialog is visible and at rest: nothing pending, no column auto-scrolling
Quiescent ==
  /\ Mounted /\ visible /\ ~renderPending /\ seeds >= 1
  /\ timers = << >>
  /\ \A col \in Cols : ~isAutoScrolling[col]

\* C19: for valid bounds, when the dialog is visible and at rest after the
\* cascade of a year or month change made in Idle, each column's centerIndex is
\* an index of the column's current list.
C19_CenterIndexInList ==
  (ValidBounds /\ Quiescent /\ cascade.active)
    => \A col \in Cols :
         centerIndex[col] >= 0 /\ centerIndex[col] < Len(ValuesOf(col, sel.y, sel.m))

\* C20: for valid bounds, when the dialog is visible and at rest after the
\* cascade of a year or month change made in Idle, the item at each column's
\* centerIndex is the column's selected component.
C20_CenterIsSelection ==
  (ValidBounds /\ Quiescent /\ cascade.active)
    => \A col \in Cols :
         At(ValuesOf(col, sel.y, sel.m), centerIndex[col]) = Component(sel, col)

\* the last two pending callbacks are the scroll command and the completion
\* timer of an animated alignment of col to index
AnimatedAlignIssued(ts, col, index) ==
  /\ Len(ts) >= 2
  /\ LET raf == ts[Len(ts) - 1]
         clr == ts[Len(ts)]
     IN /\ raf.kind = "raf" /\ raf.col = col /\ raf.anim /\ raf.y = OffsetForIndex(index)
        /\ clr.kind = "clearAuto" /\ clr.col = col /\ clr.rem = Ticks(AnimatedDelayMs)

\* C21: the settle timer is debounced. After every step each column has at
\* most one settle timer pending; a processed scroll event of a column leaves
\* exactly one, newly started with the full settle delay. When a settle timer
\* runs while the column's view exists and the column is not auto-scrolling,
\* an animated alignment is issued, and it is to the column's centerIndex of
\* that moment when that is an index of the column's list; when the timer runs
\* while the column is auto-scrolling, nothing changes.
C21_SettleDebounced ==
  [][ /\ \A col \in Cols : Len(Pending(timers', "settle", col)) <= 1
      /\ \A col \in Cols :
           (ScrollEventOn(col) /\ last'.op = "HandleScroll")
             => /\ Len(Pending(timers', "settle", col)) = 1
                /\ timers'[Len(timers')].kind = "settle"
                /\ timers'[Len(timers')].col = col
                /\ timers'[Len(timers')].rem = Ticks(SettleDelayMs)
      /\ (last'.op = "FireSettle" /\ Mounted)
           => LET col == last'.col
                  legal == centerIndex[col] < Len(ValuesOf(col, sel.y, sel.m))
              IN IF isAutoScrolling[col]
                 THEN /\ centerIndex' = centerIndex
                      /\ isAutoScrolling' = isAutoScrolling
                      /\ sel' = sel /\ offset' = offset
                      /\ Len(timers') = Len(timers) - 1
                 ELSE /\ isAutoScrolling'[col]
                      /\ legal => centerIndex'[col] = centerIndex[col]
                      /\ Len(timers') = Len(timers) + 1
                      /\ AnimatedAlignIssued(timers', col, centerIndex'[col]) ]_vars

\* the settle timer restarted by a second scroll event of the drag has run
C21_Witness ==
  /\ last.op = "FireSettle" /\ last.col = "month" /\ nEvents = 2
  /\ isAutoScrolling["month"]
  /\ AnimatedAlignIssued(timers, "month", centerIndex["month"])

\* C22: the snap of a momentum-end event that was processed (the column not
\* auto-scrolling, the index nearest the resting offset different from
\* centerIndex) is performed: the event sets centerIndex and the column's
\* selected component to that index, and when the callback it scheduled runs,
\* the column's view existing, an animated alignment of the column is issued.
C22_MomentumEndSnaps ==
  [][ /\ \A col \in Cols :
           (ScrollEventOn(col) /\ last'.op = "MomentumEnd")
             => LET list == ValuesOf(col, sel.y, sel.m)
                    c == Max(0, Min(offset'[col] \div ITEM_HEIGHT, Len(list) - 1))
                IN /\ centerIndex'[col] = c
                   /\ Component(sel', col) = At(list, c)
      /\ (last'.op = "FireMomentum" /\ Mounted)
           => /\ isAutoScrolling'[last'.col]
              /\ AnimatedAlignIssued(timers', last'.col, centerIndex'[last'.col]) ]_vars

\* C23: while the dialog is visible and initializing, a commit runs no month
\* or day sync reaction; and when the initialization of a visible dialog ends
\* (the host passing its own minDate), the alignment callback of that
\* initialization has run and the three alignments it issued have completed:
\* no column is auto-scrolling.
C23_InitializingUntilAligned ==
  [][ /\ (last'.op = "Commit" /\ visible /\ isInitializing')
           => (last'.msync = "none" /\ last'.dsync = "none")
      /\ (last'.op = "FireInitDone" /\ visible /\ isInitializing /\ ~MinDateFresh)
           => /\ \A i \in 1..Len(timers') : timers'[i].kind # "init"
              /\ \A col \in Cols : ~isAutoScrolling'[col] ]_vars

\* C24: for valid bounds no component of the selection is ever undefined, the
\* states between two steps of a cascade included.
C24_NoUndefinedComponent ==
  ValidBounds => (sel.y # Undef /\ sel.m # Undef /\ sel.d # Undef)

\* a step is a scroll, momentum-end or tap event of the user on column col
UserEventOn(col) == nEvents' = nEvents + 1 /\ last'.col = col

\* a step runs a callback that an event on column col scheduled
EventCallbackOn(col) ==
  last'.op \in {"FireSettle", "FireMomentum", "FirePress"} /\ last'.col = col

\* C25: an event on a column, and the callbacks it scheduled, write no other
\* column's centerIndex, isAutoScrolling flag or settle timer; an event on the
\* day column leaves selectedYear and selectedMonth as they are, an event on
\* the month column leaves selectedYear, and the callbacks leave the selection.
C25_ColumnStateOwned ==
  [][ \A col \in Cols :
        /\ (UserEventOn(col) \/ EventCallbackOn(col))
             => \A other \in Cols \ {col} :
                  /\ centerIndex'[other] = centerIndex[other]
                  /\ isAutoScrolling'[other] = isAutoScrolling[other]
                  /\ Pending(timers', "settle", other) = Pending(timers, "settle", other)
        /\ (UserEventOn(col) /\ col = "day") => (sel'.y = sel.y /\ sel'.m = sel.m)
        /\ (UserEventOn(col) /\ col = "month") => sel'.y = sel.y
        /\ EventCallbackOn(col) => sel' = sel ]_vars

\* a tap on the month column changed the month while the year and day columns
\* are centred on later items
C25_Witness ==
  /\ last.op = "HandleItemPress" /\ last.col = "month"
  /\ sel.m # rendered.m /\ sel.y = rendered.y
  /\ centerIndex["year"] > 0 /\ centerIndex["day"] > 0

\* C26: with H = 46, C = 2 and padding 2H, scrolling a column to a legal index
\* i of its list commands the offset max(0, (i - C) * H + 2H), and the index
\* read back from the offset the column was scrolled to is i again.
C26_OffsetRoundTrip ==
  [][ \A col \in Cols :
        /\ (last'.op = "ScrollTo" /\ last'.col = col)
             => offset'[col] = Max(0, (centerIndex'[col] - 2) * 46 + 2 * 46)
        /\ (last.op = "ScrollTo" /\ last.col = col
            /\ last'.op = "ReadIndex" /\ last'.col = col)
             => centerIndex'[col] = centerIndex[col] ]_vars

\* the index of the tenth day was read back from its offset
C26_Witness ==
  /\ last.op = "ReadIndex" /\ last.col = "day"
  /\ centerIndex["day"] = 9 /\ offset["day"] = 9 * 46

\* no scroll command and no completion timer of the column is pending
AtRest(ts, col) == Len(Pending(ts, "raf", col)) = 0 /\ Len(Pending(ts, "clearAuto", col)) = 0

\* C27: an unanimated alignment of a column to the index a settled alignment
\* has centred it on leaves centerIndex as it is and asks for no new render;
\* and whenever the alignments of a column have settled, no user event having
\* happened, the column is not auto-scrolling and rests at the target offset
\* of its centerIndex. So after the second of two calls with the same index
\* has settled, centerIndex and the offset are what they were after the first
\* had settled, and isAutoScrolling is false.
C27_AlignIdempotent ==
  [][ \A col \in Cols :
        /\ \A index \in AlignIndices(Len(RenderedValues(col))) :
             (AlignTo(col, index) /\ index = centerIndex[col] /\ AtRest(timers, col))
               => (centerIndex' = centerIndex /\ ~renderPending')
        /\ (Mounted' /\ nEvents' = 0 /\ ~renderPending' /\ AtRest(timers', col))
             => /\ ~isAutoScrolling'[col]
                /\ offset'[col] = OffsetForIndex(centerIndex'[col]) ]_vars

\* the day column, aligned to its second item and settled there, is aligned
\* to that item again
C27_Witness ==
  /\ last.op = "AlignTo" /\ last.col = "day" /\ nSteps = 3
  /\ centerIndex["day"] = 1 /\ offset["day"] = ITEM_HEIGHT
  /\ sel.d # 2 /\ ~renderPending
  /\ Len(Pending(timers, "clearAuto", "day")) = 1

\* nothing is pending and no column is auto-scrolling
Quiet ==
  /\ ~renderPending /\ timers = << >>
  /\ \A col \in Cols : ~isAutoScrolling[col]

\* C28: at every moment each column's isAutoScrolling flag is false at that
\* moment or later, so a flag that an alignment has set is cleared again,
\* whatever set it; and when the user has stopped acting, the dialog comes to
\* rest for good with no callback pending and no column auto-scrolling.
C28_NoColumnDeafForever ==
  /\ \A col \in Cols : []<>(~isAutoScrolling[col])
  /\ <>[]Quiet

\* the dialog at rest after the alignment that a tap on the month column started
C28_Witness ==
  /\ Quiet /\ Mounted /\ visible /\ nEvents = 1
  /\ last.op = "FireClearAuto" /\ last.col = "month"
  /\ At(RenderedValues("month"), centerIndex["month"]) = sel.m
  /\ SeedDate(initialDate).m # sel.m

====
